---- MODULE Spec2Model ----
(***************************************************************************)
(* Model of generator/generate.py: the batch job that reads the dated URL  *)
(* list, enriches the records through the URL-keyed metadata cache, and    *)
(* writes the day pages, month pages, recent views and the cache file.     *)
(*                                                                         *)
(* Text is modelled as a sequence of one-character strings, so that        *)
(* strip(), the URL and date regular expressions, the [:7] month prefix    *)
(* and lexicographic sorting are computed as the code computes them.       *)
(***************************************************************************)
EXTENDS Integers, Sequences, FiniteSets, TLC

\* ------------------------------------------------------------------------
\* Bounds of the model
\* ------------------------------------------------------------------------

\* longest source file (number of csv lines) drawn in Init
MaxRows == 2

\* ------------------------------------------------------------------------
\* Program constants
\* ------------------------------------------------------------------------

\* norm_tags keeps parts[:8]
TAG_CAP == 8

\* day pages, daily index and sitemap use dates_sorted[-365:]
DAY_PAGES == 365

\* month pages and sitemap use months_sorted[-60:]
MONTH_PAGES == 60

\* the hub index lists months_sorted[-18:]
INDEX_MONTHS == 18

\* build_all_page renders unique_items[:600]
ALL_CAP == 600

\* build_atom_feed renders latest_items[:120]
FEED_CAP == 120

\* build_recent_json renders latest_items[:250]
JSON_CAP == 250

\* d[:7] is the month key of a date
MONTH_KEY_LEN == 7

\* ------------------------------------------------------------------------
\* Text
\* ------------------------------------------------------------------------

E == <<>>

\* the characters of the model, in code point order
Chars == <<" ", ",", "-", "/", "0", "1", "2", "3", "4", "5", "6", "7", "8", "9",
           ":", "A", "H", "P", "S", "T",
           "a", "b", "e", "f", "h", "n", "p", "r", "s", "t", "x", "|">>

Ord(c) == CHOOSE i \in 1..Len(Chars) : Chars[i] = c

Digits == {"0", "1", "2", "3", "4", "5", "6", "7", "8", "9"}

\* the characters \s matches
Space == {" "}

\* str.lower() on one character
Lower(c) ==
  CASE c = "A" -> "a"
    [] c = "H" -> "h"
    [] c = "P" -> "p"
    [] c = "S" -> "s"
    [] c = "T" -> "t"
    [] OTHER -> c

Min(a, b) == IF a < b THEN a ELSE b

Max(a, b) == IF a > b THEN a ELSE b

\* Python s[:n]
FirstN(s, n) ==
  IF n >= 0 THEN SubSeq(s, 1, Min(n, Len(s)))
            ELSE SubSeq(s, 1, Max(Len(s) + n, 0))

\* Python s[-n:]; s[-0:] is s[0:], the whole sequence
LastN(s, n) ==
  IF n > 0 THEN SubSeq(s, Max(Len(s) - n, 0) + 1, Len(s))
  ELSE IF n = 0 THEN s
  ELSE SubSeq(s, Min(0 - n, Len(s)) + 1, Len(s))

Reverse(s) == [k \in 1..Len(s) |-> s[Len(s) + 1 - k]]

RECURSIVE lstrip(_)
lstrip(s) == IF s # E /\ Head(s) \in Space THEN lstrip(Tail(s)) ELSE s

RECURSIVE rstrip(_)
rstrip(s) ==
  IF s # E /\ s[Len(s)] \in Space THEN rstrip(SubSeq(s, 1, Len(s) - 1)) ELSE s

\* str.strip()
strip(s) == rstrip(lstrip(s))

\* a.startswith(p)
StartsWith(a, p) == Len(a) >= Len(p) /\ SubSeq(a, 1, Len(p)) = p

\* Python's string order: a < b
RECURSIVE LexLess(_, _)
LexLess(a, b) ==
  IF b = E THEN FALSE
  ELSE IF a = E THEN TRUE
  ELSE IF Head(a) = Head(b) THEN LexLess(Tail(a), Tail(b))
  ELSE Ord(Head(a)) < Ord(Head(b))

\* sorted(S) of a set of strings: a string stands behind the strings that
\* are less than it
sorted(S) ==
  LET ranked == {<<x, Cardinality({y \in S : LexLess(y, x)})>> : x \in S}
  IN [i \in 1..Cardinality(S) |-> (CHOOSE p \in ranked : p[2] = i - 1)[1]]

\* URL_RE = ^https?://  with re.I
URL_RE(u) ==
  LET l == [k \in 1..Len(u) |-> Lower(u[k])]
  IN \/ StartsWith(l, <<"h", "t", "t", "p", ":", "/", "/">>)
     \/ StartsWith(l, <<"h", "t", "t", "p", "s", ":", "/", "/">>)

\* re.match(r"^\d{4}-\d{2}-\d{2}$", d)
DATE_RE(d) ==
  /\ Len(d) = 10
  /\ \A k \in {1, 2, 3, 4, 6, 7, 9, 10} : d[k] \in Digits
  /\ d[5] = "-"
  /\ d[8] = "-"

\* the maximal runs of characters that are neither a comma nor whitespace:
\* [p.strip() for p in re.split(r"[,\s]+", s) if p.strip()]
RECURSIVE Tokens(_, _)
Tokens(s, cur) ==
  IF s = E THEN (IF cur = E THEN <<>> ELSE <<cur>>)
  ELSE IF Head(s) \in Space \cup {","}
       THEN (IF cur = E THEN <<>> ELSE <<cur>>) \o Tokens(Tail(s), E)
       ELSE Tokens(Tail(s), Append(cur, Head(s)))

\* ",".join(parts)
RECURSIVE Join(_)
Join(parts) ==
  IF parts = <<>> THEN E
  ELSE IF Len(parts) = 1 THEN parts[1]
  ELSE parts[1] \o <<",">> \o Join(Tail(parts))

\* a norm_tags that keeps every token
norm_tags_uncapped(s) ==
  IF strip(s) = E THEN E
  ELSE Join(Tokens(strip(s), E))

norm_tags(s) ==
  IF strip(s) = E THEN E
  ELSE Join(FirstN(Tokens(strip(s), E), TAG_CAP))

\* ------------------------------------------------------------------------
\* Record Store Reader
\* ------------------------------------------------------------------------

\* column k of a csv line, "" when the line is shorter
Col(line, k) == IF Len(line) >= k THEN strip(line[k]) ELSE E

\* a KeepsLine that does not look at the scheme of the URL
KeepsLineAnyUrl(line) ==
  /\ Len(line) >= 2
  /\ strip(line[1]) # E
  /\ strip(line[2]) # E

\* the conditions under which read_daily_csv keeps a line
KeepsLine(line) ==
  /\ Len(line) >= 2
  /\ strip(line[1]) # E
  /\ strip(line[2]) # E
  /\ URL_RE(strip(line[2]))

\* a record; the fields after title_hint are the ones main() adds while
\* enriching it: a key that is absent from the dict reads as "" everywhere
\* the code reads it, and is "" here
Item(date, url, note, tags, title_hint) ==
  [date |-> date, url |-> url, note |-> note, tags |-> tags,
   title_hint |-> title_hint, status_code |-> E, final_url |-> E,
   content_type |-> E, x_robots_tag |-> E, noindex_hint |-> E, title |-> E,
   description |-> E, robots_meta_noindex |-> E]

read_daily_csv(lines) ==
  LET kept == SelectSeq(lines, KeepsLine)
  IN [k \in 1..Len(kept) |->
        Item(Col(kept[k], 1), Col(kept[k], 2), Col(kept[k], 3),
             norm_tags(Col(kept[k], 4)), Col(kept[k], 5))]

\* raw.split("|") with every part stripped
RECURSIVE SplitBar(_, _)
SplitBar(s, cur) ==
  IF s = E THEN <<strip(cur)>>
  ELSE IF Head(s) = "|" THEN <<strip(cur)>> \o SplitBar(Tail(s), E)
  ELSE SplitBar(Tail(s), Append(cur, Head(s)))

\* the records of the EXTRA_URLS side channel, dated today by main()
RECURSIVE parse_extra_urls(_, _)
parse_extra_urls(extra, today) ==
  IF extra = <<>> THEN <<>>
  ELSE LET raw == strip(Head(extra))
           parts == SplitBar(raw, E)
       IN (IF raw # E /\ URL_RE(parts[1])
           THEN <<Item(today, parts[1],
                       IF Len(parts) >= 2 THEN parts[2] ELSE E,
                       IF Len(parts) >= 3 THEN norm_tags(parts[3]) ELSE E,
                       E)>>
           ELSE <<>>) \o parse_extra_urls(Tail(extra), today)

\* ------------------------------------------------------------------------
\* Aggregator
\* ------------------------------------------------------------------------

\* by_date[d]: the records of day d, as positions in the record list (the
\* dicts are shared by every list that holds them, so a record is named by
\* its position)
by_date(its, d) ==
  SelectSeq([k \in 1..Len(its) |-> k], LAMBDA k : its[k].date = d)

DateKeys(its) == {its[k].date : k \in 1..Len(its)}

MonthKeys(ds) ==
  {FirstN(ds[k], MONTH_KEY_LEN) : k \in {j \in 1..Len(ds) : DATE_RE(ds[j])}}

\* the records of the listed days, day after day
RECURSIVE Flatten(_, _)
Flatten(its, ds) ==
  IF ds = <<>> THEN <<>>
  ELSE IF Len(ds) = 1 THEN by_date(its, ds[1])
  ELSE LET h == Len(ds) \div 2
       IN Flatten(its, SubSeq(ds, 1, h)) \o Flatten(its, SubSeq(ds, h + 1, Len(ds)))

\* keeps a position only the first time its URL is seen
Dedup(its, cand, seen) ==
  LET first == SelectSeq([k \in 1..Len(cand) |-> k],
                 LAMBDA k : /\ its[cand[k]].url \notin seen
                            /\ \A j \in 1..(k - 1) :
                                 its[cand[j]].url # its[cand[k]].url)
  IN [k \in 1..Len(first) |-> cand[first[k]]]

\* a RecentUnique that walks the window oldest day first
RecentUniqueOldestFirst(its, ds, days_on_index) ==
  Dedup(its, Flatten(its, LastN(ds, days_on_index)), {})

RecentUnique(its, ds, days_on_index) ==
  Dedup(its, Flatten(its, Reverse(LastN(ds, days_on_index))), {})

\* ------------------------------------------------------------------------
\* Enrichment cache persistence
\* ------------------------------------------------------------------------

Fields ==
  {"url", "final_url", "status_code", "content_type", "title", "description",
   "robots_meta_noindex", "x_robots_tag", "last_fetch_utc"}

\* the cache file is a set of rows; a url occurs in at most one row of a
\* file this program wrote
read_meta_csv(file) ==
  LET keys == {strip(r.url) : r \in file} \ {E}
  IN [u \in keys |-> CHOOSE r \in file : strip(r.url) = u]

write_meta_csv(meta) ==
  {[k \in Fields |-> meta[u][k]] : u \in DOMAIN meta}

\* meta_cache.get(u, {}).get(k) or ""
Cached(meta, u, k) == IF u \in DOMAIN meta THEN meta[u][k] ELSE E

\* a cached_ok that asks for a title and a description
cached_ok_all(meta, u) ==
  /\ Cached(meta, u, "title") # E
  /\ Cached(meta, u, "description") # E

\* cached_ok: the entry need not be fetched again
cached_ok(meta, u) ==
  \/ Cached(meta, u, "title") # E
  \/ Cached(meta, u, "description") # E
  \/ Cached(meta, u, "robots_meta_noindex") # E

\* ------------------------------------------------------------------------
\* Metadata Fetcher: what the two probes can return for a URL
\* ------------------------------------------------------------------------

ERR == <<"e", "r", "r", "o", "r", ":", "T">>

OK200 == <<"2", "0", "0">>

HTML == <<"t", "e", "x", "t", "/", "h", "t", "m", "l">>

PDF == <<"a", "p", "p", "/", "p", "d", "f">>

PAGE_TITLE == <<"T">>

STAMP == <<"t", "s">>

\* (status, final_url, ctype, xrobots, noindex): a response, or the except
\* branch
head_check(u) ==
  {[status |-> OK200, final_url |-> u, ctype |-> HTML, xrobots |-> E,
    noindex |-> FALSE],
   [status |-> E, final_url |-> E, ctype |-> E, xrobots |-> ERR,
    noindex |-> FALSE]}

MetaRow(u, final_url, status, ctype, title, xrobots) ==
  [url |-> u, final_url |-> final_url, status_code |-> status,
   content_type |-> ctype, title |-> title, description |-> E,
   robots_meta_noindex |-> E, x_robots_tag |-> xrobots, last_fetch_utc |-> E]

\* an html page with a title, a response that is not html, or the except
\* branch
fetch_meta(u) ==
  {MetaRow(u, u, OK200, HTML, PAGE_TITLE, E),
   MetaRow(u, u, OK200, PDF, E, E),
   MetaRow(u, E, E, E, E, ERR)}

\* ------------------------------------------------------------------------
\* View renderers: the content of an artifact, without its markup
\* ------------------------------------------------------------------------

\* sub in s
Contains(sub, s) ==
  \E k \in 0..(Len(s) - Len(sub)) : SubSeq(s, k + 1, k + Len(sub)) = sub

NOINDEX == <<"n", "o", "i", "n", "d", "e", "x">>

YES == <<"y", "e", "s">>

\* it.get("title") or it.get("title_hint") or url
DisplayTitle(it) ==
  IF it.title # E THEN it.title
  ELSE IF it.title_hint # E THEN it.title_hint
  ELSE it.url

\* the status chip of a day page card: "" (no chip), ok, noindex or
\* status:<code>
StatusHint(it) ==
  IF \/ it.robots_meta_noindex = YES
     \/ Contains(NOINDEX, [k \in 1..Len(it.x_robots_tag) |-> Lower(it.x_robots_tag[k])])
  THEN NOINDEX
  ELSE IF it.status_code # E /\ StartsWith(it.status_code, <<"2">>) THEN <<"o", "k">>
  ELSE IF it.status_code # E
       THEN <<"s", "t", "a", "t", "u", "s", ":">> \o it.status_code
  ELSE E

DayCard(it) ==
  [url |-> it.url, title |-> DisplayTitle(it), hint |-> StatusHint(it),
   description |-> it.description]

build_daily_page(its, idx) == [k \in 1..Len(idx) |-> DayCard(its[idx[k]])]

\* a row of the health csv of a day
HealthRow(it) ==
  [url |-> it.url, status |-> it.status_code, x_robots_tag |-> it.x_robots_tag,
   title |-> it.title]

health_csv(its, idx) == [k \in 1..Len(idx) |-> HealthRow(its[idx[k]])]

MonthCard(it) == [date |-> it.date, url |-> it.url, title |-> DisplayTitle(it)]

\* the records of one date among month_items, in their order
Group(month_items, d) == SelectSeq(month_items, LAMBDA it : it.date = d)

\* one block per date of the month's items, newest date first, each cut to
\* MAX_PER_PAGE cards
build_month_page(month_items, cap) ==
  LET ds == Reverse(sorted({month_items[k].date : k \in 1..Len(month_items)}))
  IN [b \in 1..Len(ds) |->
        LET g == FirstN(Group(month_items, ds[b]), cap)
        IN [k \in 1..Len(g) |-> MonthCard(g[k])]]

AllCard(it) == [date |-> it.date, url |-> it.url, title |-> DisplayTitle(it)]

build_all_page(unique_items) ==
  LET s == FirstN(unique_items, ALL_CAP) IN [k \in 1..Len(s) |-> AllCard(s[k])]

FeedEntry(it) ==
  [url |-> it.url, title |-> DisplayTitle(it),
   summary |-> IF it.description # E THEN it.description ELSE it.note]

build_atom_feed(latest_items) ==
  LET s == FirstN(latest_items, FEED_CAP) IN [k \in 1..Len(s) |-> FeedEntry(s[k])]

\* "title": it.get("title") or it.get("title_hint") or ""
JsonEntry(it) ==
  [date |-> it.date, url |-> it.url,
   title |-> IF it.title # E THEN it.title ELSE it.title_hint,
   description |-> it.description, tags |-> it.tags,
   status |-> it.status_code, final_url |-> it.final_url]

build_recent_json(latest_items) ==
  LET s == FirstN(latest_items, JSON_CAP) IN [k \in 1..Len(s) |-> JsonEntry(s[k])]

\* a build_index_page that lists its days oldest first
build_index_page_oldest_first(ds, ms, latest, days_on_index) ==
  [latest |-> latest,
   days |-> LastN(ds, days_on_index),
   months |-> Reverse(LastN(ms, INDEX_MONTHS))]

build_index_page(ds, ms, latest, days_on_index) ==
  [latest |-> latest,
   days |-> Reverse(LastN(ds, days_on_index)),
   months |-> Reverse(LastN(ms, INDEX_MONTHS))]

build_daily_index_page(ds) == Reverse(LastN(ds, DAY_PAGES))

build_sitemap(ds, ms) ==
  [days |-> LastN(ds, DAY_PAGES), months |-> LastN(ms, MONTH_PAGES)]

\* ------------------------------------------------------------------------
\* Inputs
\* ------------------------------------------------------------------------

D1 == <<"2", "0", "2", "4", "-", "0", "1", "-", "0", "1">>

D2 == <<"2", "0", "2", "4", "-", "0", "1", "-", "0", "2">>

\* a date that fails the strict pattern and shares the month prefix of D1
DX == <<"2", "0", "2", "4", "-", "0", "1", "-", "5">>

\* the current UTC date
TODAY == <<"2", "0", "2", "4", "-", "0", "2", "-", "0", "1">>

UA == <<"h", "t", "t", "p", ":", "/", "/", "a">>

UB == <<"h", "t", "t", "p", "s", ":", "/", "/", "b">>

HINT == <<"A", " ", "T">>

\* the csv lines a source file is made of
LinePool ==
  {<<D1, UA, E, <<"s", ",", " ", "b">>, HINT>>,
   <<D2, UA>>,
   <<DX, UB, <<"n">>>>,
   <<D1, UB>>}

\* EXTRA_URLS: nothing, or one line "https://b | n"
ExtraPool == {<<>>, <<UB \o <<" ", "|", " ", "n">>>>}

\* cache rows left by earlier runs: a complete entry, and an entry of a
\* response that was not html (status and content type known, no title)
CacheRowPool ==
  {[MetaRow(UA, UA, OK200, HTML, PAGE_TITLE, E) EXCEPT !.last_fetch_utc = STAMP],
   [MetaRow(UB, UB, OK200, PDF, E, E) EXCEPT !.last_fetch_utc = STAMP]}

CacheFiles ==
  {f \in SUBSET CacheRowPool : \A r1, r2 \in f : r1.url = r2.url => r1 = r2}

BoundedSeq(S, n) == UNION {[1..k -> S] : k \in 0..n}

\* ------------------------------------------------------------------------
\* State
\* ------------------------------------------------------------------------

VARIABLES
  lines,            \* DATA_FILE: the csv lines of the source
  extra,            \* EXTRA_URLS: the lines of the side channel
  FETCH_META,       \* configuration
  MAX_PER_PAGE,     \* configuration
  DAYS_ON_INDEX,    \* configuration
  meta_file,        \* META_FILE: the rows of the stored cache
  meta_readable,    \* whether open() and the csv reader accept META_FILE
  pc,               \* position of main()
  items,            \* the records: rows, then the extra records
  dates_sorted,
  months_sorted,
  meta_cache,
  recent_unique,    \* positions in items
  enriched_recent,  \* copies of records
  dpos,             \* position of the day loop in dates_sorted[-365:]
  ipos,             \* position of the record loop in the day's items
  docs,             \* the artifacts this run has written
  log,              \* the file and network operations of this run, in order
  fetched,          \* the URLs fetch_meta was called with in this run, in order
  loaded_file       \* the stored cache as it was when this run read it

vars ==
  <<lines, extra, FETCH_META, MAX_PER_PAGE, DAYS_ON_INDEX, meta_file,
    meta_readable, pc,
    items, dates_sorted, months_sorted, meta_cache, recent_unique,
    enriched_recent, dpos, ipos, docs, log, fetched, loaded_file>>

inputs ==
  <<lines, extra, FETCH_META, MAX_PER_PAGE, DAYS_ON_INDEX, meta_readable>>

NoDocs ==
  [d |-> <<>>, health |-> <<>>, index |-> <<>>, d_index |-> <<>>, m |-> <<>>,
   all |-> <<>>, feed |-> <<>>, json |-> <<>>, sitemap |-> <<>>]

Idle ==
  /\ pc = "idle"
  /\ items = <<>>
  /\ dates_sorted = <<>>
  /\ months_sorted = <<>>
  /\ meta_cache = <<>>
  /\ recent_unique = <<>>
  /\ enriched_recent = <<>>
  /\ dpos = 1
  /\ ipos = 1
  /\ docs = NoDocs
  /\ log = <<>>
  /\ fetched = <<>>
  /\ loaded_file = {}

\* the runs of the enrichment: any source, any stored cache, metadata
\* fetching on or off, a page cap of one or two records, a window of two days
Init ==
  /\ lines \in BoundedSeq(LinePool, MaxRows)
  /\ extra \in ExtraPool
  /\ Len(lines) + Len(extra) <= MaxRows
  /\ FETCH_META \in BOOLEAN
  /\ MAX_PER_PAGE \in {1, 2}
  /\ DAYS_ON_INDEX = 2
  /\ meta_file \in CacheFiles
  /\ meta_readable = TRUE
  /\ Idle

\* the runs of the aggregation: any source, any stored cache, every window
\* from none to three days, metadata fetching off
InitAgg ==
  /\ lines \in BoundedSeq(LinePool, MaxRows)
  /\ extra \in ExtraPool
  /\ Len(lines) + Len(extra) <= MaxRows
  /\ FETCH_META = FALSE
  /\ MAX_PER_PAGE \in {1, 2}
  /\ DAYS_ON_INDEX \in {0, 1, 2, 3}
  /\ meta_file \in CacheFiles
  /\ meta_readable = TRUE
  /\ Idle

\* ------------------------------------------------------------------------
\* Enrichment Coordinator
\* ------------------------------------------------------------------------

\* a ResolveTitle that falls back to the hint of any record of the URL
ResolveTitleAnyHint(meta, u, title_hint) ==
  LET hs == {items[k].title_hint : k \in {j \in 1..Len(items) : items[j].url = u}}
  IN IF strip(Cached(meta, u, "title")) # E THEN strip(Cached(meta, u, "title"))
     ELSE IF title_hint # E THEN title_hint
     ELSE IF hs \ {E} # {} THEN CHOOSE h \in hs \ {E} : TRUE
     ELSE E

\* (cached.get("title") or "").strip() or (it.get("title_hint") or "")
ResolveTitle(meta, u, title_hint) ==
  IF strip(Cached(meta, u, "title")) # E THEN strip(Cached(meta, u, "title"))
  ELSE title_hint

\* the fields main() sets from the result of head_check
WithHead(it, h) ==
  [it EXCEPT !.status_code = h.status, !.final_url = h.final_url,
             !.content_type = h.ctype, !.x_robots_tag = h.xrobots,
             !.noindex_hint = IF h.noindex THEN YES ELSE E]

\* the fields main() sets from the cache entry while preparing a day page
WithMeta(it, meta) ==
  [it EXCEPT !.title = ResolveTitle(meta, it.url, it.title_hint),
             !.description = strip(Cached(meta, it.url, "description")),
             !.robots_meta_noindex = strip(Cached(meta, it.url, "robots_meta_noindex"))]

\* the copy of a recent-unique record that the all page, the feed and the
\* export render
RecentItem(it, meta) ==
  [it EXCEPT !.title = ResolveTitle(meta, it.url, it.title_hint),
             !.description = strip(Cached(meta, it.url, "description")),
             !.final_url = strip(Cached(meta, it.url, "final_url")),
             !.status_code = strip(Cached(meta, it.url, "status_code"))]

\* the fields main() sets on every record before it writes the month pages
MonthItem(it, meta) ==
  [it EXCEPT !.title = ResolveTitle(meta, it.url, it.title_hint),
             !.description = strip(Cached(meta, it.url, "description"))]

\* a Store that starts a new mapping
StoreAlone(meta, u, m) == [k \in {u} |-> m]

\* meta_cache[u] = m
Store(meta, u, m) ==
  [k \in DOMAIN meta \cup {u} |-> IF k = u THEN m ELSE meta[k]]

\* the days that get a day page, and the records of the day being prepared
DayWindow == LastN(dates_sorted, DAY_PAGES)

\* a CurItems that keeps the last records of the day
CurItemsNewest == LastN(by_date(items, DayWindow[dpos]), MAX_PER_PAGE)

CurItems == FirstN(by_date(items, DayWindow[dpos]), MAX_PER_PAGE)

\* ------------------------------------------------------------------------
\* main()
\* ------------------------------------------------------------------------

\* reads the source and the cache, groups by day, builds recent_unique; an
\* exception of open() or of the csv reader in read_meta_csv is not caught
\* and ends the run at line 750
StartRun ==
  /\ pc \in {"idle", "done"}
  /\ LET its == read_daily_csv(lines) \o parse_extra_urls(extra, TODAY)
         ds == sorted(DateKeys(its))
     IN /\ items' = its
        /\ dates_sorted' = ds
        /\ months_sorted' = sorted(MonthKeys(ds))
        /\ recent_unique' = IF meta_readable
                            THEN RecentUnique(its, ds, DAYS_ON_INDEX) ELSE <<>>
  /\ meta_cache' = IF meta_readable THEN read_meta_csv(meta_file) ELSE <<>>
  /\ loaded_file' = meta_file
  /\ pc' = IF meta_readable THEN "days" ELSE "aborted"
  /\ dpos' = 1
  /\ ipos' = 1
  /\ enriched_recent' = <<>>
  /\ docs' = NoDocs
  /\ log' = <<"read_meta">>
  /\ fetched' = <<>>
  /\ UNCHANGED <<inputs, meta_file>>

\* one pass of the loop "for it in items": the head check, then the content
\* probe unless the cache entry is complete
EnrichItem ==
  /\ pc = "days"
  /\ dpos <= Len(DayWindow)
  /\ ipos <= Len(CurItems)
  /\ LET k == CurItems[ipos]
         u == items[k].url
     IN \E h \in head_check(u) :
          IF FETCH_META /\ ~cached_ok(meta_cache, u)
          THEN \E m \in fetch_meta(u) :
                 LET mc == Store(meta_cache, u, [m EXCEPT !.last_fetch_utc = STAMP])
                 IN /\ meta_cache' = mc
                    /\ fetched' = Append(fetched, u)
                    /\ log' = log \o <<"head", "get">>
                    /\ items' = [items EXCEPT ![k] = WithMeta(WithHead(@, h), mc)]
          ELSE /\ items' = [items EXCEPT ![k] =
                              IF FETCH_META THEN WithMeta(WithHead(@, h), meta_cache)
                              ELSE WithHead(@, h)]
               /\ log' = Append(log, "head")
               /\ UNCHANGED <<meta_cache, fetched>>
  /\ ipos' = ipos + 1
  /\ UNCHANGED <<inputs, meta_file, pc, dates_sorted, months_sorted,
                 recent_unique, enriched_recent, dpos, docs, loaded_file>>

\* writes the day page and the health csv of the day, moves to the next day
WriteDayPage ==
  /\ pc = "days"
  /\ dpos <= Len(DayWindow)
  /\ ipos > Len(CurItems)
  /\ docs' = [docs EXCEPT
       !.d = Append(@, [date |-> DayWindow[dpos],
                        cards |-> build_daily_page(items, CurItems)]),
       !.health = Append(@, [date |-> DayWindow[dpos],
                             rows |-> health_csv(items, CurItems)])]
  /\ log' = log \o <<"d", "health">>
  /\ dpos' = dpos + 1
  /\ ipos' = 1
  /\ UNCHANGED <<inputs, meta_file, pc, items, dates_sorted,
                 months_sorted, meta_cache, recent_unique, enriched_recent,
                 fetched, loaded_file>>

\* enriched_recent: the copies of the records of recent_unique, with the
\* fields of the cache
EnrichedRecent ==
  [k \in 1..Len(recent_unique) |-> RecentItem(items[recent_unique[k]], meta_cache)]

\* the records after main() has attached the cache to each of them for the
\* month pages
AttachedItems == [k \in 1..Len(items) |-> MonthItem(items[k], meta_cache)]

\* everything main() writes after the day loop: recent_unique is enriched
\* from the cache; the hub index and the daily index are written; the cache
\* is attached to every record and the month pages are written; then the all
\* page, the feed, the export, the sitemap, robots.txt and .nojekyll
WriteViews ==
  /\ pc = "days"
  /\ dpos > Len(DayWindow)
  /\ enriched_recent' = EnrichedRecent
  /\ items' = AttachedItems
  /\ docs' =
       LET er == EnrichedRecent
           its == AttachedItems
           all == Flatten(its, dates_sorted)
           items_all == [k \in 1..Len(all) |-> its[all[k]]]
           ms == LastN(months_sorted, MONTH_PAGES)
       IN [docs EXCEPT
             !.index = <<build_index_page(dates_sorted, months_sorted,
                           IF dates_sorted # <<>>
                           THEN dates_sorted[Len(dates_sorted)] ELSE E,
                           DAYS_ON_INDEX)>>,
             !.d_index = <<build_daily_index_page(dates_sorted)>>,
             !.m = [j \in 1..Len(ms) |->
                      [month |-> ms[j],
                       blocks |-> build_month_page(
                         SelectSeq(items_all,
                           LAMBDA it : FirstN(it.date, MONTH_KEY_LEN) = ms[j]),
                         MAX_PER_PAGE)]],
             !.all = <<build_all_page(er)>>,
             !.feed = <<build_atom_feed(er)>>,
             !.json = <<build_recent_json(er)>>,
             !.sitemap = <<build_sitemap(dates_sorted, months_sorted)>>]
  /\ log' = log \o <<"index", "d_index">>
                \o [j \in 1..Len(LastN(months_sorted, MONTH_PAGES)) |-> "m"]
                \o <<"all", "feed", "json", "sitemap", "robots", "nojekyll">>
  /\ pc' = "persist"
  /\ UNCHANGED <<inputs, meta_file, dates_sorted, months_sorted,
                 meta_cache, recent_unique, dpos, ipos, fetched, loaded_file>>

\* a PersistCache that runs after the notifications
PersistCacheLast ==
  /\ pc = "persist"
  /\ meta_file' = write_meta_csv(meta_cache)
  /\ log' = log \o <<"indexnow", "pingomatic", "write_meta">>
  /\ pc' = "done"
  /\ UNCHANGED <<inputs, items, dates_sorted, months_sorted,
                 meta_cache, recent_unique, enriched_recent, dpos, ipos, docs,
                 fetched, loaded_file>>

\* write_meta_csv(META_FILE, meta_cache)
PersistCache ==
  /\ pc = "persist"
  /\ meta_file' = write_meta_csv(meta_cache)
  /\ log' = Append(log, "write_meta")
  /\ pc' = "broadcast"
  /\ UNCHANGED <<inputs, items, dates_sorted, months_sorted,
                 meta_cache, recent_unique, enriched_recent, dpos, ipos, docs,
                 fetched, loaded_file>>

\* the two notifications (the first creates its key file when it finds
\* none); each swallows its own failure
Broadcast ==
  /\ pc = "broadcast"
  /\ log' = log \o <<"indexnow", "pingomatic">>
  /\ pc' = "done"
  /\ UNCHANGED <<inputs, meta_file, items, dates_sorted, months_sorted,
                 meta_cache, recent_unique, enriched_recent, dpos, ipos, docs,
                 fetched, loaded_file>>

\* an exception of a file operation (a page, an index, the cache file) ends
\* the run where it is; the probes and the notifications catch their own
Abort ==
  /\ IF pc = "days"
     THEN (IF dpos <= Len(DayWindow) THEN ipos > Len(CurItems) ELSE TRUE)
     ELSE pc = "persist"
  /\ pc' = "aborted"
  /\ UNCHANGED <<inputs, meta_file, items, dates_sorted,
                 months_sorted, meta_cache, recent_unique, enriched_recent, dpos,
                 ipos, docs, log, fetched, loaded_file>>

Next ==
  \/ StartRun
  \/ EnrichItem
  \/ WriteDayPage
  \/ WriteViews
  \/ PersistCache
  \/ Broadcast
  \/ Abort

Spec == Init /\ [][Next]_vars

SpecAgg == InitAgg /\ [][Next]_vars

\* the runs over a stored cache that is absent (no rows), readable, or
\* present but rejected by open() or by the decoder
InitCache ==
  /\ lines \in BoundedSeq(LinePool, MaxRows)
  /\ extra \in ExtraPool
  /\ Len(lines) + Len(extra) <= MaxRows
  /\ FETCH_META \in BOOLEAN
  /\ MAX_PER_PAGE = 2
  /\ DAYS_ON_INDEX = 2
  /\ meta_file \in CacheFiles
  /\ meta_readable \in BOOLEAN
  /\ Idle

SpecCache == InitCache /\ [][Next]_vars

\* tag cells: every short string over two letters, the comma and the space,
\* and long lists of up to MaxTags tokens under several separators, padded
\* or not
MaxTagLen == 4

MaxTags == 10

RECURSIVE Repeat(_, _)
Repeat(piece, n) == IF n = 0 THEN E ELSE piece \o Repeat(piece, n - 1)

TagSeparators == {<<",">>, <<" ">>, <<",", " ">>, <<",", ",">>, <<" ", ",", " ">>}

TagPool ==
  BoundedSeq({"a", "b", ",", " "}, MaxTagLen)
    \cup {pad \o Repeat(<<"s">> \o sep, n) \o <<"t">> \o pad :
           pad \in {E, <<" ">>}, sep \in TagSeparators, n \in 1..(MaxTags - 1)}

\* one record whose tag cell is drawn from TagPool, in the source or in the
\* side channel
InitTags ==
  /\ \E t \in TagPool :
       \/ lines = <<(<<D1, UA, E, t>>)>> /\ extra = <<>>
       \/ lines = <<>> /\ extra = <<UB \o <<" ", "|", " ", "n", " ", "|"," ">> \o t>>
  /\ FETCH_META = FALSE
  /\ MAX_PER_PAGE = 2
  /\ DAYS_ON_INDEX = 2
  /\ meta_file = {}
  /\ meta_readable = TRUE
  /\ Idle

SpecTags == InitTags /\ [][Next]_vars

\* a source of n rows, one per day, over more days than get a day page: day
\* k is 2024-mm-dd with mm = 01.. and dd = 01..31 (the program does not ask
\* for calendar dates)
MaxDays == 366

TwoDigits(k) ==
  LET digit == <<"0", "1", "2", "3", "4", "5", "6", "7", "8", "9">>
  IN <<digit[(k \div 10) + 1], digit[(k % 10) + 1]>>

DateOf(k) ==
  <<"2", "0", "2", "4", "-">> \o TwoDigits(((k - 1) \div 31) + 1)
    \o <<"-">> \o TwoDigits(((k - 1) % 31) + 1)

YearLines(n) == [k \in 1..n |-> <<DateOf(k), UA>>]

\* the runs over one, two, DAY_PAGES and MaxDays days, with an index window
\* of two days and one wider than DAY_PAGES; in the long runs the page cap is
\* 0, so that the day pages are written without a probe for each of them
InitYear ==
  /\ \E n \in {1, 2, DAY_PAGES, MaxDays} :
       /\ lines = YearLines(n)
       /\ MAX_PER_PAGE = IF n <= 2 THEN 1 ELSE 0
  /\ extra = <<>>
  /\ FETCH_META = FALSE
  /\ DAYS_ON_INDEX \in {2, 400}
  /\ meta_file = {}
  /\ meta_readable = TRUE
  /\ Idle

SpecYear == InitYear /\ [][Next]_vars

\* ------------------------------------------------------------------------
\* Properties
\* ------------------------------------------------------------------------

Range(s) == {s[k] : k \in 1..Len(s)}

Count(s, x) == Cardinality({k \in 1..Len(s) : s[k] = x})

\* the records of the input, as the reader and the side channel deliver them
Src == read_daily_csv(lines) \o parse_extra_urls(extra, TODAY)

Started == pc # "idle"

Finished == pc \in {"broadcast", "done"}

\* a cache row that holds a title, a description or an indexing hint
Complete(r) == r.title # E \/ r.description # E \/ r.robots_meta_noindex # E

\* the URLs whose stored entry was complete when the run read the cache
CompleteAtLoad == {strip(r.url) : r \in {x \in loaded_file : Complete(x)}}

\* the cards of all day pages written so far
DayCards == UNION {Range(docs.d[j].cards) : j \in 1..Len(docs.d)}

\* C1: a URL whose stored cache entry is complete when a run starts is never
\* passed to fetch_meta in that run, in a first run and in a run after it
C1_CompleteNeverFetched ==
  Started => \A u \in CompleteAtLoad : u \notin Range(fetched)

\* C1 witness: a later run has ended (no stored cache of a first run has a
\* complete entry for https://b); it rendered https://b on a day page with
\* the entry an earlier run completed, and fetched nothing for it
C1_Witness ==
  /\ pc = "done"
  /\ \A f \in CacheFiles : \A r \in f : r.url = UB => ~Complete(r)
  /\ FETCH_META
  /\ UB \in CompleteAtLoad
  /\ \E c \in DayCards : c.url = UB /\ c.title = PAGE_TITLE
  /\ UB \notin Range(fetched)

\* the days of the recent window
Window == Range(LastN(dates_sorted, DAYS_ON_INDEX))

\* the positions of the records of URL u on the days win, src being the
\* records of the input
InWindow(src, win, u) ==
  {k \in 1..Len(src) : src[k].url = u /\ src[k].date \in win}

\* the record of u that recent-unique has to retain: the first in source
\* order on the latest day of the window on which u occurs
Retained(src, win, u) ==
  LET ks == InWindow(src, win, u)
  IN CHOOSE k \in ks :
       \A j \in ks :
         \/ LexLess(src[j].date, src[k].date)
         \/ src[j].date = src[k].date /\ k <= j

\* C2: recent-unique holds every URL of the window once, and the record it
\* holds for a URL is the first one of the latest day on which the URL
\* occurs, with that record's date, note and tags
C2_RecentUnique ==
  Started =>
    LET src == Src
        win == Window
        urls == {src[k].url : k \in {j \in 1..Len(src) : src[j].date \in win}}
        ret == [u \in urls |-> Retained(src, win, u)]
    IN /\ \A i, j \in 1..Len(recent_unique) :
            items[recent_unique[i]].url = items[recent_unique[j]].url => i = j
       /\ {items[recent_unique[k]].url : k \in 1..Len(recent_unique)} = urls
       /\ \A k \in 1..Len(recent_unique) :
            LET it == items[recent_unique[k]]
                r == src[ret[it.url]]
            IN /\ recent_unique[k] = ret[it.url]
               /\ it.date = r.date
               /\ it.note = r.note
               /\ it.tags = r.tags
       /\ Finished =>
            /\ Len(enriched_recent) = Len(recent_unique)
            /\ \A k \in 1..Len(recent_unique) :
                 LET r == src[ret[items[recent_unique[k]].url]]
                 IN /\ enriched_recent[k].url = r.url
                    /\ enriched_recent[k].date = r.date
                    /\ enriched_recent[k].note = r.note
                    /\ enriched_recent[k].tags = r.tags

\* C2 witness: a URL occurs on two days of the window and the finished run
\* lists it once, with the later day
C2_Witness ==
  /\ pc = "done"
  /\ \E k \in 1..Len(enriched_recent) :
       /\ enriched_recent[k].date = D2
       /\ \E j \in InWindow(Src, Window, enriched_recent[k].url) : Src[j].date = D1

\* C3: fetch_meta is called at most once per URL in a run
C3_OneFetchPerUrl ==
  \A u \in Range(fetched) : Count(fetched, u) <= 1

\* the titles of all generated outputs
OutputTitles ==
  {c.title : c \in DayCards}
    \cup UNION {UNION {{c.title : c \in Range(docs.m[j].blocks[b])} :
                         b \in 1..Len(docs.m[j].blocks)} : j \in 1..Len(docs.m)}
    \cup UNION {{c.title : c \in Range(docs.all[j])} : j \in 1..Len(docs.all)}
    \cup UNION {{c.title : c \in Range(docs.feed[j])} : j \in 1..Len(docs.feed)}
    \cup UNION {{c.title : c \in Range(docs.json[j])} : j \in 1..Len(docs.json)}

\* the URLs of all generated outputs
OutputUrls ==
  {c.url : c \in DayCards}
    \cup UNION {UNION {{c.url : c \in Range(docs.m[j].blocks[b])} :
                         b \in 1..Len(docs.m[j].blocks)} : j \in 1..Len(docs.m)}
    \cup UNION {{c.url : c \in Range(docs.all[j])} : j \in 1..Len(docs.all)}
    \cup UNION {{c.url : c \in Range(docs.feed[j])} : j \in 1..Len(docs.feed)}
    \cup UNION {{c.url : c \in Range(docs.json[j])} : j \in 1..Len(docs.json)}

\* C4: no record of a generated output has a blank title
C4_TitleNeverBlank ==
  \A t \in OutputTitles : t # E

\* the artifacts a finished run has written
AllWritten ==
  /\ Len(docs.d) = Len(DayWindow)
  /\ \A name \in {"index", "d_index", "all", "feed", "json", "sitemap",
                   "robots", "nojekyll", "write_meta"} : Count(log, name) = 1

ERROR == <<"e", "r", "r", "o", "r">>

\* C5: a run whose probes fail still ends with all artifacts and the cache
\* written, and the day page card of a URL whose head check failed shows an
\* error-tagged status
C5_UnreachableTagged ==
  /\ Finished => AllWritten
  /\ \A j \in 1..Len(docs.d) :
       \A k \in 1..Len(docs.d[j].cards) :
         StartsWith(docs.health[j].rows[k].x_robots_tag, ERROR)
           => Contains(ERROR, docs.d[j].cards[k].hint)

\* the operations of a run that must come before the cache is written
BeforeSave ==
  {"read_meta", "head", "get", "d", "health", "index", "d_index", "m", "all",
   "feed", "json", "sitemap", "robots", "nojekyll"}

\* C6: the cache is read once, first; it is written once, after every fetch
\* and every artifact and before the notifications; until it is written the
\* stored cache is the one that was loaded, also when the run aborted
C6_ReadOnceWriteOnce ==
  Started =>
    /\ log[1] = "read_meta"
    /\ Count(log, "read_meta") = 1
    /\ Count(log, "write_meta") <= 1
    /\ Finished => Count(log, "write_meta") = 1 /\ AllWritten
    /\ \A i \in 1..Len(log) :
         IF log[i] = "write_meta"
         THEN /\ \A j \in 1..(i - 1) : log[j] \in BeforeSave
              /\ \A j \in (i + 1)..Len(log) : log[j] \in {"indexnow", "pingomatic"}
         ELSE log[i] \in {"indexnow", "pingomatic"} => Count(log, "write_meta") = 1
    /\ pc = "done" => Count(log, "indexnow") = 1 /\ Count(log, "pingomatic") = 1
    /\ Count(log, "write_meta") = 0 => meta_file = loaded_file

\* C6 witness: a run that had fetched metadata and written a day page
\* aborted before the cache was written
C6_Witness ==
  /\ pc = "aborted"
  /\ fetched # <<>>
  /\ docs.d # <<>>
  /\ meta_cache # read_meta_csv(loaded_file)
  /\ meta_file = loaded_file

\* the csv lines the reader is checked on: a plain row, a full row, an upper
\* case scheme, padded fields, a blank date, an empty date, an empty URL,
\* another scheme, a single column and an empty line
ReadPool ==
  {<<D1, UA>>,
   <<D2, UB, <<"n">>, <<"s", ",", "b">>, HINT>>,
   <<D1, <<"H", "T", "T", "P", ":", "/", "/", "a">>>>,
   <<<<" ">> \o D2 \o <<" ">>, <<" ">> \o UA>>,
   <<<<" ">>, UA>>,
   <<E, UA>>,
   <<D1, E>>,
   <<D1, <<"f", "t", "p", ":", "/", "/", "a">>>>,
   <<D1>>,
   <<>>}

InitRead ==
  /\ lines \in BoundedSeq(ReadPool, MaxRows)
  /\ extra = <<>>
  /\ FETCH_META \in BOOLEAN
  /\ MAX_PER_PAGE = 2
  /\ DAYS_ON_INDEX = 2
  /\ meta_file = {}
  /\ meta_readable = TRUE
  /\ Idle

SpecRead == InitRead /\ [][Next]_vars

HTTP == <<"h", "t", "t", "p", ":", "/", "/">>

HTTPS == <<"h", "t", "t", "p", "s", ":", "/", "/">>

\* a row as C7 words it: a non-empty date and a URL that starts with
\* http:// or https://, the fields taken as the reader trims them
RowAsWritten(line) ==
  /\ Len(line) >= 2
  /\ strip(line[1]) # E
  /\ StartsWith(strip(line[2]), HTTP) \/ StartsWith(strip(line[2]), HTTPS)

\* the same with the prefix in any letter case
RowAnyCase(line) ==
  /\ Len(line) >= 2
  /\ strip(line[1]) # E
  /\ LET u == strip(line[2])
         l == [k \in 1..Len(u) |-> Lower(u[k])]
     IN StartsWith(l, HTTP) \/ StartsWith(l, HTTPS)

\* the records are the rows that pass Valid, in source order; each is in
\* the bucket of its date and in no other; the outputs show only their URLs
BucketsOf(Valid(_), Date(_), Url(_)) ==
  Started =>
    LET rows == SelectSeq(lines, Valid)
    IN /\ Len(items) = Len(rows)
       /\ \A k \in 1..Len(items) :
            /\ items[k].date = Date(rows[k])
            /\ items[k].url = Url(rows[k])
            /\ {d \in Range(dates_sorted) : k \in Range(by_date(items, d))}
                 = {Date(rows[k])}
       /\ OutputUrls \subseteq {Url(rows[k]) : k \in 1..Len(rows)}
       /\ Finished => OutputUrls = {Url(rows[k]) : k \in 1..Len(rows)}

\* C7 as written: a row with a non-empty date and a URL starting with
\* http:// or https:// is in exactly the bucket of its date, any other row in
\* no bucket and no output
C7_AsWritten ==
  BucketsOf(RowAsWritten, LAMBDA line : strip(line[1]), LAMBDA line : strip(line[2]))

\* C7 amended: the prefix is matched in any letter case; a row with a
\* non-empty date and such a URL is in exactly the bucket of its date, in
\* source order, any other row in no bucket and no output
C7_RowsInOneBucket ==
  BucketsOf(RowAnyCase, LAMBDA line : strip(line[1]), LAMBDA line : strip(line[2]))

\* C7 witness: a finished run kept a row with an upper case scheme, dropped
\* another row, and wrote a day page
C7_Witness ==
  /\ pc = "done"
  /\ \E k \in 1..Len(lines) : RowAnyCase(lines[k]) /\ ~RowAsWritten(lines[k])
  /\ \E k \in 1..Len(lines) : ~RowAnyCase(lines[k])
  /\ DayCards # {}

\* the cards of all month pages
MonthCards ==
  UNION {UNION {Range(docs.m[j].blocks[b]) : b \in 1..Len(docs.m[j].blocks)} :
           j \in 1..Len(docs.m)}

\* C8: no month page shows a record whose date fails the strict pattern,
\* and such a record has its day page
C8_MonthPagesConforming ==
  /\ \A c \in MonthCards : DATE_RE(c.date)
  /\ Finished =>
       \A k \in 1..Len(Src) :
         \E j \in 1..Len(docs.d) : docs.d[j].date = Src[k].date

CacheFields ==
  {"final_url", "status_code", "content_type", "title", "description",
   "robots_meta_noindex"}

\* C9 as written: every cache field that was non-empty in the loaded cache
\* is non-empty in the saved cache
C9_AsWritten ==
  Finished =>
    LET saved == read_meta_csv(meta_file)
    IN \A r \in loaded_file :
         \A f \in CacheFields :
           r[f] # E => strip(r.url) \in DOMAIN saved /\ saved[strip(r.url)][f] # E

\* C9 amended: the saved cache holds every loaded row unchanged, except the
\* rows of incomplete entries that this run fetched again: those are
\* replaced whole by the result of the fetch
C9_LoadedRowsKept ==
  Finished =>
    \A r \in loaded_file :
      \/ r \in meta_file
      \/ ~Complete(r) /\ strip(r.url) \in Range(fetched)

\* C9 witness: a finished run fetched metadata for one URL and saved the
\* loaded row of another URL of its pages unchanged
C9_Witness ==
  /\ pc = "done"
  /\ fetched # <<>>
  /\ \E r \in loaded_file :
       /\ r \in meta_file
       /\ r.url \notin Range(fetched)
       /\ \E c \in DayCards : c.url = r.url

\* the title the cache and the record's own hint give
OwnTitle(r) ==
  IF strip(Cached(meta_cache, r.url, "title")) # E
  THEN strip(Cached(meta_cache, r.url, "title"))
  ELSE r.title_hint

\* that title, or the URL where there is none
OwnTitleOrUrl(r) == IF OwnTitle(r) # E THEN OwnTitle(r) ELSE r.url

\* C10: in every view the title of a record comes from the cache entry of
\* its URL or from its own title_hint (or is the URL, or blank in the
\* export), never from the hint of another record of that URL; for the rows
\* (2024-01-01, u, hint) and (2024-01-02, u) with no cached title
\* recent-unique is one entry dated 2024-01-02 whose title is not the hint
C10_PerRecordTitle ==
  LET src == Src
  IN /\ \A j \in 1..Len(docs.d) :
          LET idx == FirstN(by_date(src, docs.d[j].date), MAX_PER_PAGE)
          IN \A k \in 1..Len(docs.d[j].cards) :
               docs.d[j].cards[k].title \in
                 {OwnTitle(src[idx[k]]), src[idx[k]].title_hint, src[idx[k]].url}
     /\ Finished =>
          /\ \A k \in 1..Len(enriched_recent) :
               LET r == src[recent_unique[k]]
               IN /\ enriched_recent[k].title = OwnTitle(r)
                  /\ docs.json[1][k].title = OwnTitle(r)
                  /\ docs.all[1][k].title = OwnTitleOrUrl(r)
                  /\ docs.feed[1][k].title = OwnTitleOrUrl(r)
          /\ \A j \in 1..Len(docs.m) :
               \A b \in 1..Len(docs.m[j].blocks) :
                 LET cards == docs.m[j].blocks[b]
                     idx == by_date(src, cards[1].date)
                 IN \A k \in 1..Len(cards) :
                      cards[k].title = OwnTitleOrUrl(src[idx[k]])
          /\ ( /\ Len(src) = 2
               /\ src[1].date = D1 /\ src[1].title_hint = HINT
               /\ src[2].date = D2 /\ src[2].title_hint = E
               /\ src[1].url = src[2].url
               /\ strip(Cached(meta_cache, src[1].url, "title")) = E )
             => /\ Len(enriched_recent) = 1
                /\ enriched_recent[1].date = D2
                /\ enriched_recent[1].title # HINT

\* C10 witness: the two rows of the example, no cached title for their URL
\* after the fetches, and a finished run whose recent-unique entry is dated
\* 2024-01-02 and has a blank title
C10_Witness ==
  /\ pc = "done"
  /\ FETCH_META
  /\ Len(Src) = 2
  /\ Src[1].date = D1 /\ Src[1].title_hint = HINT
  /\ Src[2].date = D2 /\ Src[2].title_hint = E
  /\ Src[1].url = Src[2].url
  /\ Len(fetched) = 2
  /\ Len(enriched_recent) = 1
  /\ enriched_recent[1].date = D2
  /\ enriched_recent[1].title = E

\* C11: a stored cache that cannot be read is treated as an empty cache, and
\* the run goes on to its artifacts instead of aborting
C11_UnreadableCacheIsEmpty ==
  (Started /\ ~meta_readable) => (pc # "aborted" /\ meta_cache = <<>>)

\* the tag cells of the source as written, and every tag string a record holds
RawTags == {lines[k][4] : k \in {j \in 1..Len(lines) : Len(lines[j]) >= 4}}

\* at most eight tokens, none empty, none with white space, one comma between
\* neighbours
WellFormedTags(r) ==
  \/ r = E
  \/ /\ Cardinality({i \in 1..Len(r) : r[i] = ","}) + 1 <= 8
     /\ r[1] # "," /\ r[Len(r)] # ","
     /\ \A i \in 1..Len(r) : r[i] \notin Space
     /\ \A i \in 1..(Len(r) - 1) : ~(r[i] = "," /\ r[i + 1] = ",")

\* C12: normalising a tag string twice gives what normalising it once gives,
\* and the tags a record holds are at most eight non-empty tokens joined by
\* single commas
C12_NormTagsIdempotent ==
  /\ \A t \in RawTags : /\ norm_tags(norm_tags(t)) = norm_tags(t)
                         /\ WellFormedTags(norm_tags(t))
  /\ \A k \in 1..Len(items) : /\ norm_tags(items[k].tags) = items[k].tags
                               /\ WellFormedTags(items[k].tags)
                               /\ Len(Tokens(items[k].tags, E)) <= 8

\* C12 witness: a record was read whose cell held more than eight tokens
\* under mixed separators; it holds the first eight
C12_Witness ==
  /\ Started
  /\ \E t \in RawTags :
       /\ Len(Tokens(t, E)) > 8
       /\ \E i \in 1..Len(t) : t[i] = " "
       /\ \E k \in 1..Len(items) :
            /\ items[k].tags = Join(FirstN(Tokens(t, E), 8))
            /\ items[k].tags # t
            /\ Len(Tokens(items[k].tags, E)) = 8

\* strictly ascending, strictly descending and non-increasing lists of keys
Ascending(s) == \A i, j \in 1..Len(s) : i < j => LexLess(s[i], s[j])

Descending(s) == \A i, j \in 1..Len(s) : i < j => LexLess(s[j], s[i])

NonIncreasing(s) == \A i, j \in 1..Len(s) : i < j => ~LexLess(s[i], s[j])

\* the days of the records of recent_unique, in its order
RecentDays == [k \in 1..Len(recent_unique) |-> items[recent_unique[k]].date]

\* C13: dates_sorted and months_sorted are duplicate-free and ascending; the
\* day list and the month list of the hub index and the daily index list
\* stored keys in descending order, and recent_unique goes from newer days to
\* older days
C13_KeysOrdered ==
  /\ Ascending(dates_sorted)
  /\ Ascending(months_sorted)
  /\ NonIncreasing(RecentDays)
  /\ Range(RecentDays) \subseteq Range(dates_sorted)
  /\ \A j \in 1..Len(docs.index) :
       /\ Descending(docs.index[j].days)
       /\ Descending(docs.index[j].months)
       /\ Range(docs.index[j].days) \subseteq Range(dates_sorted)
       /\ Range(docs.index[j].months) \subseteq Range(months_sorted)
  /\ \A j \in 1..Len(docs.d_index) :
       /\ Descending(docs.d_index[j])
       /\ Range(docs.d_index[j]) \subseteq Range(dates_sorted)

\* C13 witness: a finished run over two days in two months; every recent
\* view lists at least two keys
C13_Witness ==
  /\ pc = "done"
  /\ Len(dates_sorted) >= 2
  /\ Len(docs.index[1].days) >= 2
  /\ Len(docs.index[1].months) >= 2
  /\ Len(docs.d_index[1]) >= 2
  /\ Cardinality(Range(RecentDays)) >= 2

\* the source has one record only with this day and this URL
OnlyRecord(d, u) ==
  Cardinality({k \in 1..Len(Src) : Src[k].date = d /\ Src[k].url = u}) = 1

\* C14: when a run has written its pages, a record has the same title on its
\* day page and on its month page
C14_SameTitleDayAndMonth ==
  Finished =>
    \A j \in 1..Len(docs.d) : \A c \in Range(docs.d[j].cards) :
      \A m \in MonthCards :
        (m.date = docs.d[j].date /\ m.url = c.url /\ OnlyRecord(m.date, m.url))
          => m.title = c.title

\* the URLs of the records of day d, in source order, and of a list of cards
BucketUrls(d) ==
  LET b == SelectSeq(Src, LAMBDA it : it.date = d)
  IN [k \in 1..Len(b) |-> b[k].url]

CardUrls(cards) == [k \in 1..Len(cards) |-> cards[k].url]

\* every day page shows the first MAX_PER_PAGE records of its day
DayPagesCapped ==
  \A j \in 1..Len(docs.d) :
    /\ Len(docs.d[j].cards) <= MAX_PER_PAGE
    /\ CardUrls(docs.d[j].cards) = FirstN(BucketUrls(docs.d[j].date), MAX_PER_PAGE)

\* every record of a day of the recent window, shown on its day page or not,
\* has its URL in recent_unique
AllAreRecentCandidates ==
  Finished =>
    \A k \in 1..Len(Src) :
      Src[k].date \in Window =>
        \E j \in 1..Len(docs.all) : \E c \in Range(docs.all[j]) : c.url = Src[k].url

\* the blocks of all month pages, one per day
MonthBlocks ==
  UNION {{docs.m[j].blocks[b] : b \in 1..Len(docs.m[j].blocks)} : j \in 1..Len(docs.m)}

GreatestDays(n) ==
  {d \in Range(dates_sorted) :
     Cardinality({e \in Range(dates_sorted) : LexLess(d, e)}) < n}

\* C16: the hub index lists at most DAYS_ON_INDEX days, recent_unique draws
\* its records from at most DAYS_ON_INDEX days, and these are the greatest
\* day keys
C16_WindowOfN ==
  /\ Cardinality(Range(RecentDays)) <= DAYS_ON_INDEX
  /\ Range(RecentDays) \subseteq GreatestDays(DAYS_ON_INDEX)
  /\ \A j \in 1..Len(docs.index) :
       /\ Len(docs.index[j].days) <= DAYS_ON_INDEX
       /\ Range(docs.index[j].days) = GreatestDays(DAYS_ON_INDEX)

\* the days and the months whose page this run has written
WrittenDays == {docs.d[j].date : j \in 1..Len(docs.d)}

WrittenMonths == {docs.m[j].month : j \in 1..Len(docs.m)}

\* C17: every day page and month page that the hub index, the daily index or
\* the sitemap of a run links to has been written by that run
C17_LinkedPagesWritten ==
  /\ \A j \in 1..Len(docs.index) :
       /\ Range(docs.index[j].days) \subseteq WrittenDays
       /\ docs.index[j].latest # E => docs.index[j].latest \in WrittenDays
       /\ Range(docs.index[j].months) \subseteq WrittenMonths
  /\ \A j \in 1..Len(docs.d_index) : Range(docs.d_index[j]) \subseteq WrittenDays
  /\ \A j \in 1..Len(docs.sitemap) :
       /\ Range(docs.sitemap[j].days) \subseteq WrittenDays
       /\ Range(docs.sitemap[j].months) \subseteq WrittenMonths

====
